---- MODULE Spec2Model ----
(***************************************************************************)
(* Model of src/mcp/client/stdio/win32.py:                                 *)
(*   - get_windows_executable_command  (executable resolver)               *)
(*   - FallbackProcess                 (process handle adapter)            *)
(*   - create_windows_process          (launcher with one fallback)        *)
(*                                                                         *)
(* Four specifications share the variables of the module:                  *)
(*   Spec          the adapter: construction, scope entry, scope exit,     *)
(*                 wait / terminate / kill, the child process, the pipes   *)
(*   FairSpec      Spec with the fairness of the process, the worker       *)
(*                 thread and the task inside __aexit__                    *)
(*   SpecResolver  one call of get_windows_executable_command              *)
(*   SpecLauncher  one call of create_windows_process                      *)
(***************************************************************************)
EXTENDS Integers, Sequences, FiniteSets, TLC

\* ------------------------------------------------------------------ bounds
\* how many times __aexit__ may be invoked on one adapter
MaxExits == 2
\* how many wait()/terminate()/kill()/stream calls the tasks of the scheduler make
MaxCalls == 2

\* ------------------------------------------------------- adapter: constants
\* the three raw endpoints of the Popen object
Handles == {"stdin", "stdout", "stderr"}
\* the two endpoints FallbackProcess.__init__ may wrap in a stream
Wrapped == {"stdin", "stdout"}
\* popen.returncode before the process was reaped (Python None)
NoCode == -1
\* exit statuses a child may report
ExitCodes == {0, 1}

VARIABLES
    \* --- adapter (FallbackProcess) ---
    rawPresent,     \* [Handles -> BOOLEAN]  popen.stdin/stdout/stderr is not None
    rawOpen,        \* [Handles -> BOOLEAN]  the raw file object is open
    closeCalls,     \* [Handles -> Nat]      close() calls that reached the raw file
    releases,       \* [Handles -> Nat]      times the descriptor was released
    stream,         \* [Handles -> BOOLEAN]  a stream object wraps the endpoint
                    \*   (self.stdin / self.stdout is not None)
    procState,      \* "running" | "exited"  the OS process
    exitCode,       \* the status the OS process exited with (NoCode while running)
    returncode,     \* popen.returncode (NoCode until reaped)
    termSent,       \* termination requests that reached the OS process
    pc,             \* position of the task that owns the scope
    exc,            \* what the scope body raised: "none" | "error" | "cancelled"
    cancelPending,  \* a cancellation of the owning task waits for a checkpoint
    outcome,        \* how the last __aexit__ ended: "none"|"ok"|"error"|"cancelled"
    callerSees,     \* exception leaving the scope: "none"|"error"|"cancelled"
    exits,          \* number of __aexit__ invocations so far
    completed,      \* number of __aexit__ invocations that returned normally
    events,         \* the steps the running / last __aexit__ performed, in order
    entered,        \* value returned by __aenter__: "none" | "self"
    waiterPc,       \* a second task calling wait(): "idle" | "waiting"
    waitResult,     \* what that wait() returned (NoCode before it returns)
    calls,          \* number of wait()/terminate()/kill() calls made so far
    last,           \* the last call a task made on the adapter or its streams,
                    \* <<operation, result>>
    \* --- resolver (get_windows_executable_command) ---
    command,        \* the command name passed in
    lookup,         \* outcome of shutil.which per candidate name
    rpc,            \* "start" | "returned" | "raised"
    resolved,       \* the returned string
    tried,          \* candidate names looked up, in order
    \* --- launcher (create_windows_process) ---
    platform,       \* what the platform does with the spawn requests
    request,        \* the arguments of the call
    lpc,            \* "start" | "fallback" | "returned" | "raised"
    attempts,       \* the Popen calls made, in order, with their keyword arguments
    children,       \* ids of the child processes that exist
    adapter         \* the FallbackProcess returned (its popen id), 0 if none

adapterVars == <<rawPresent, rawOpen, closeCalls, releases, completed, stream,
                 procState, exitCode,
                 returncode, termSent, pc, exc, cancelPending, outcome,
                 callerSees, exits, events, entered, waiterPc, waitResult, calls,
                 last>>
resolverVars == <<command, lookup, rpc, resolved, tried>>
launcherVars == <<platform, request, lpc, attempts, children, adapter>>
vars == <<adapterVars, resolverVars, launcherVars>>

\* ------------------------------------------------------ adapter: helpers

\* truthiness of `self.stdin_raw`, `self.stdout_raw`, `self.stderr`:
\* a file object is truthy whether open or closed, None is falsy
RawTruthy(h) == rawPresent[h]

\* truthiness of `self.stdin`, `self.stdout`
StreamTruthy(h) == stream[h]

\* variant: close() leaves the file object open
FileClose_LeavesOpen(open, h) == open

\* FileIO.close(): the first call releases the descriptor (and marks the
\* object closed even when the OS reports an error); a call on a closed
\* file does nothing.  Returns the new rawOpen.
FileClose(open, h) == [open EXCEPT ![h] = FALSE]

\* FileIO.close(): the descriptor is handed back to the OS only by a call
\* on an open file.  Returns the new releases.
FileReleases(open, rel, h) == IF open[h] THEN [rel EXCEPT ![h] = @ + 1] ELSE rel

\* variant: close() on a closed file raises as well
CloseCanRaise_Always(open, h) == TRUE

\* whether a close() call on h can raise: only the call that releases
\* the descriptor can report an OS error
CloseCanRaise(open, h) == open[h]

\* Popen.terminate(): nothing when the process was already reaped; picks up
\* the exit status when the process exited on its own; otherwise sends the
\* termination request.
PopenTerminateCode == IF returncode # NoCode THEN returncode
                      ELSE IF procState = "exited" THEN exitCode
                      ELSE NoCode

PopenTerminateSends == returncode = NoCode /\ procState = "running"

\* variant: __aexit__ returns a true value
AexitReturnsTruthy_Yes == TRUE

\* what __aexit__ returns: None, which does not suppress the body's exception
AexitReturnsTruthy == FALSE

\* exception the caller of the scope sees once __aexit__ has ended with `out`
Propagated(out, bodyExc) ==
    IF out # "ok" THEN out
    ELSE IF AexitReturnsTruthy THEN "none" ELSE bodyExc

\* variant: the wait of __aexit__ runs on the scheduler's own thread
Suspended_WaitBlocks == pc \in {"constructed", "body", "wait_call",
                                "close_write_stream", "close_read_stream", "done"}

\* the owning task is at a point where the scheduler can run other tasks
\* (outside __aexit__, or inside one of its awaits)
Suspended == pc \in {"constructed", "body", "wait_call", "waiting",
                     "close_write_stream", "close_read_stream", "done"}

\* __aexit__ ends by raising `what` ("error" or "cancelled")
AexitRaises(what) ==
    /\ pc' = "done"
    /\ outcome' = what
    /\ callerSees' = Propagated(what, exc)
    /\ UNCHANGED completed

\* variant: the streams are built without the `if self.stdin_raw` test
WrapStreams_Unconditional(present) == [h \in Handles |-> h \in Wrapped]

\* lines 63-64: a FileWriteStream wraps stdin and a FileReadStream wraps
\* stdout when the raw endpoint is present; stderr is never wrapped
WrapStreams(present) == [h \in Handles |-> h \in Wrapped /\ present[h]]

\* ------------------------------------------------------ initial states
\* FallbackProcess.__init__ applied to a freshly spawned Popen object whose
\* endpoints may each be a pipe or absent
AdapterInit ==
    /\ rawPresent \in [Handles -> BOOLEAN]
    /\ rawOpen = rawPresent
    /\ closeCalls = [h \in Handles |-> 0]
    /\ releases = [h \in Handles |-> 0]
    /\ completed = 0
    /\ stream = WrapStreams(rawPresent)
    /\ procState = "running"
    /\ exitCode = NoCode
    /\ returncode = NoCode
    /\ termSent = 0
    /\ pc = "constructed"
    /\ exc = "none"
    /\ cancelPending = FALSE
    /\ outcome = "none"
    /\ callerSees = "none"
    /\ exits = 0
    /\ events = <<>>
    /\ entered = "none"
    /\ waiterPc = "idle"
    /\ waitResult = NoCode
    /\ calls = 0
    /\ last = <<"none", "none">>

\* no adapter exists (the resolver and the launcher specifications)
AdapterIdle ==
    /\ rawPresent = [h \in Handles |-> FALSE]
    /\ rawOpen = [h \in Handles |-> FALSE]
    /\ closeCalls = [h \in Handles |-> 0]
    /\ releases = [h \in Handles |-> 0]
    /\ completed = 0
    /\ stream = [h \in Handles |-> FALSE]
    /\ procState = "running"
    /\ exitCode = NoCode
    /\ returncode = NoCode
    /\ termSent = 0
    /\ pc = "idle"
    /\ exc = "none"
    /\ cancelPending = FALSE
    /\ outcome = "none"
    /\ callerSees = "none"
    /\ exits = 0
    /\ events = <<>>
    /\ entered = "none"
    /\ waiterPc = "idle"
    /\ waitResult = NoCode
    /\ calls = 0
    /\ last = <<"none", "none">>

ResolverIdle ==
    /\ command = ""
    /\ lookup = <<>>
    /\ rpc = "idle"
    /\ resolved = ""
    /\ tried = <<>>

LauncherIdle ==
    /\ platform = "idle"
    /\ request = "idle"
    /\ lpc = "idle"
    /\ attempts = <<>>
    /\ children = {}
    /\ adapter = 0

Init == AdapterInit /\ ResolverIdle /\ LauncherIdle

\* ------------------------------------------------------ adapter: actions
\* variables __aexit__ never touches
ExitFrame == UNCHANGED <<rawPresent, stream, entered, waiterPc, waitResult,
                         calls, last, resolverVars, launcherVars>>

\* __aenter__: returns self
Aenter ==
    /\ pc = "constructed"
    /\ pc' = "body"
    /\ entered' = "self"
    /\ UNCHANGED <<rawPresent, rawOpen, closeCalls, releases, completed, stream,
                   procState, exitCode,
                   returncode, termSent, exc, cancelPending, outcome,
                   callerSees, exits, events, waiterPc, waitResult, calls, last,
                   resolverVars, launcherVars>>

\* the scope body ends (normally, with an error, or by cancellation of the
\* task) and the `async with` calls __aexit__; or __aexit__ is invoked again
\* on an adapter whose scope was already left.  A cancellation that ended
\* the body may still be in force at the awaits of __aexit__ (cancel scope)
\* or may have been consumed by the body (single delivery).
AexitBegin ==
    /\ pc \in {"body", "done"}
    /\ exits < MaxExits
    /\ \E how \in {"none", "error", "cancelled"} : \E still \in BOOLEAN :
          /\ exc' = how
          /\ cancelPending' = (how = "cancelled" /\ still)
    /\ exits' = exits + 1
    /\ events' = <<>>
    /\ outcome' = "none"
    /\ callerSees' = "none"
    /\ pc' = "terminate"
    /\ UNCHANGED <<rawOpen, closeCalls, releases, completed, procState,
                   exitCode, returncode, termSent>>
    /\ ExitFrame

\* variant: __aexit__ does not ask the process to terminate
AexitTerminate_NoRequest ==
    /\ pc = "terminate"
    /\ events' = Append(events, "terminate")
    /\ pc' = "wait_call"
    /\ UNCHANGED <<rawOpen, closeCalls, releases, procState, exitCode, exc,
                   cancelPending, exits, outcome, callerSees, completed,
                   returncode, termSent>>
    /\ ExitFrame

\* line 77: self.popen.terminate()
AexitTerminate ==
    /\ pc = "terminate"
    /\ events' = Append(events, "terminate")
    /\ returncode' = PopenTerminateCode
    /\ termSent' = IF PopenTerminateSends THEN termSent + 1 ELSE termSent
    /\ pc' = "wait_call"
    /\ UNCHANGED <<rawOpen, closeCalls, releases, procState, exitCode, exc,
                   cancelPending, exits, outcome, callerSees, completed>>
    /\ ExitFrame

\* variant: the wait is started but not awaited
AexitWaitCall_NotAwaited ==
    /\ pc = "wait_call"
    /\ IF cancelPending
          THEN /\ AexitRaises("cancelled")
               /\ UNCHANGED events
          ELSE /\ pc' = "close_write_stream"
               /\ events' = Append(events, "wait_start")
               /\ UNCHANGED <<outcome, callerSees, completed>>
    /\ UNCHANGED <<rawOpen, closeCalls, releases, procState, exitCode, returncode,
                   termSent, exc, cancelPending, exits>>
    /\ ExitFrame

\* line 78, entry of `await to_thread.run_sync(self.popen.wait)`: the call
\* is a checkpoint, then the blocking wait starts in a worker thread
AexitWaitCall ==
    /\ pc = "wait_call"
    /\ IF cancelPending
          THEN /\ AexitRaises("cancelled")
               /\ UNCHANGED events
          ELSE /\ pc' = "waiting"
               /\ events' = Append(events, "wait_start")
               /\ UNCHANGED <<outcome, callerSees, completed>>
    /\ UNCHANGED <<rawOpen, closeCalls, releases, procState, exitCode, returncode,
                   termSent, exc, cancelPending, exits>>
    /\ ExitFrame

\* line 78, the worker's popen.wait() returns once the process has exited
AexitWaitReturn ==
    /\ pc = "waiting"
    /\ procState = "exited"
    /\ returncode' = exitCode
    /\ events' = Append(events, "wait_done")
    /\ pc' = "close_write_stream"
    /\ UNCHANGED <<rawOpen, closeCalls, releases, procState, exitCode, termSent, exc,
                   cancelPending, outcome, callerSees, exits, completed>>
    /\ ExitFrame

\* line 78, a cancellation reaches the task while it is suspended in the wait
AexitWaitCancelled ==
    /\ pc = "waiting"
    /\ cancelPending
    /\ AexitRaises("cancelled")
    /\ UNCHANGED <<rawOpen, closeCalls, releases, procState, exitCode, returncode,
                   termSent, exc, cancelPending, exits, events>>
    /\ ExitFrame

\* `if self.<s>: await self.<s>.aclose()` for the stream s, continuing at `next`:
\* aclose() is a checkpoint, then closes the wrapped raw file in a worker
AexitCloseStream(at, s, next) ==
    /\ pc = at
    /\ IF ~StreamTruthy(s)
          THEN /\ pc' = next
               /\ UNCHANGED <<rawOpen, closeCalls, releases, events, outcome, callerSees, completed>>
          ELSE IF cancelPending
          THEN /\ AexitRaises("cancelled")
               /\ UNCHANGED <<rawOpen, closeCalls, releases, events>>
          ELSE /\ rawOpen' = FileClose(rawOpen, s)
               /\ closeCalls' = [closeCalls EXCEPT ![s] = @ + 1]
               /\ releases' = FileReleases(rawOpen, releases, s)
               /\ events' = Append(events, at)
               /\ \/ /\ pc' = next
                     /\ UNCHANGED <<outcome, callerSees, completed>>
                  \/ /\ CloseCanRaise(rawOpen, s)
                     /\ AexitRaises("error")
    /\ UNCHANGED <<procState, exitCode, returncode, termSent, exc,
                   cancelPending, exits>>
    /\ ExitFrame

\* lines 81-82
AexitCloseWriteStream ==
    AexitCloseStream("close_write_stream", "stdin", "close_read_stream")

\* lines 83-84
AexitCloseReadStream ==
    AexitCloseStream("close_read_stream", "stdout", "close_stdin_raw")

\* __aexit__ returns None
AexitReturns ==
    /\ pc' = "done"
    /\ outcome' = "ok"
    /\ callerSees' = Propagated("ok", exc)
    /\ completed' = completed + 1

\* `if self.<h>: self.<h>.close()` for the raw handle h, continuing at `next`
\* ("done": __aexit__ returns)
AexitCloseRaw(at, h, next) ==
    /\ pc = at
    /\ IF ~RawTruthy(h)
          THEN /\ UNCHANGED <<rawOpen, closeCalls, releases, events>>
               /\ IF next = "done" THEN AexitReturns
                  ELSE pc' = next /\ UNCHANGED <<outcome, callerSees, completed>>
          ELSE /\ rawOpen' = FileClose(rawOpen, h)
               /\ closeCalls' = [closeCalls EXCEPT ![h] = @ + 1]
               /\ releases' = FileReleases(rawOpen, releases, h)
               /\ events' = Append(events, at)
               /\ \/ IF next = "done" THEN AexitReturns
                     ELSE pc' = next /\ UNCHANGED <<outcome, callerSees, completed>>
                  \/ /\ CloseCanRaise(rawOpen, h)
                     /\ AexitRaises("error")
    /\ UNCHANGED <<procState, exitCode, returncode, termSent, exc,
                   cancelPending, exits>>
    /\ ExitFrame

\* lines 85-86
AexitCloseStdinRaw == AexitCloseRaw("close_stdin_raw", "stdin", "close_stdout_raw")

\* lines 87-88
AexitCloseStdoutRaw == AexitCloseRaw("close_stdout_raw", "stdout", "close_stderr")

\* lines 89-90
AexitCloseStderr == AexitCloseRaw("close_stderr", "stderr", "done")

\* a cancellation of the owning task is requested while it is inside an
\* await of __aexit__
CancelArrives ==
    /\ pc \in {"wait_call", "waiting", "close_write_stream", "close_read_stream"}
    /\ ~cancelPending
    /\ cancelPending' = TRUE
    /\ UNCHANGED <<rawPresent, rawOpen, closeCalls, releases, completed, stream,
                   procState, exitCode,
                   returncode, termSent, pc, exc, outcome, callerSees, exits,
                   events, entered, waiterPc, waitResult, calls, last,
                   resolverVars, launcherVars>>

\* variables wait()/terminate()/kill() and the child process never touch
CallFrame == UNCHANGED <<rawPresent, rawOpen, closeCalls, releases, completed,
                         stream, pc, exc,
                         cancelPending, outcome, callerSees, exits, events,
                         entered, resolverVars, launcherVars>>

\* lines 96-98: terminate() is self.popen.terminate()
TerminateBody ==
    /\ returncode' = PopenTerminateCode
    /\ termSent' = IF PopenTerminateSends THEN termSent + 1 ELSE termSent

\* terminate() called by a task of the scheduler
Terminate ==
    /\ Suspended
    /\ calls < MaxCalls
    /\ calls' = calls + 1
    /\ last' = <<"terminate", "none">>
    /\ TerminateBody
    /\ UNCHANGED <<procState, exitCode, waiterPc, waitResult>>
    /\ CallFrame

\* variant: kill() also waits for the process
Kill_AlsoWaits ==
    /\ Suspended
    /\ calls < MaxCalls
    /\ calls' = calls + 1
    /\ last' = <<"kill", "none">>
    /\ TerminateBody
    /\ waiterPc' = "waiting"
    /\ UNCHANGED <<procState, exitCode, waitResult>>
    /\ CallFrame

\* lines 100-102: kill() calls self.terminate()
Kill ==
    /\ Suspended
    /\ calls < MaxCalls
    /\ calls' = calls + 1
    /\ last' = <<"kill", "none">>
    /\ TerminateBody
    /\ UNCHANGED <<procState, exitCode, waiterPc, waitResult>>
    /\ CallFrame

\* variant: wait() asks the process to terminate before waiting
WaitCall_TerminatesFirst ==
    /\ Suspended
    /\ waiterPc = "idle"
    /\ calls < MaxCalls
    /\ calls' = calls + 1
    /\ waiterPc' = "waiting"
    /\ waitResult' = NoCode
    /\ last' = <<"wait", "none">>
    /\ TerminateBody
    /\ UNCHANGED <<procState, exitCode>>
    /\ CallFrame

\* lines 92-94, entry of wait(): the blocking popen.wait() starts in a worker
\* thread and the calling task is suspended
WaitCall ==
    /\ Suspended
    /\ waiterPc = "idle"
    /\ calls < MaxCalls
    /\ calls' = calls + 1
    /\ waiterPc' = "waiting"
    /\ waitResult' = NoCode
    /\ last' = <<"wait", "none">>
    /\ UNCHANGED <<procState, exitCode, returncode, termSent>>
    /\ CallFrame

\* lines 92-94: the worker's popen.wait() returns the exit status
WaitReturn ==
    /\ Suspended
    /\ waiterPc = "waiting"
    /\ procState = "exited"
    /\ returncode' = exitCode
    /\ waitResult' = exitCode
    /\ waiterPc' = "idle"
    /\ UNCHANGED <<procState, exitCode, termSent, calls, last>>
    /\ CallFrame

\* results of a receive() / send() on a stream whose raw file is open: the
\* operation transfers bytes or reports end of stream, or stays suspended
OpenIoResults == {"ok", "hangs"}

\* result of a receive() / send() on the stream wrapping h: a closed raw
\* file makes it fail with the closed-stream error
StreamIoResults(h) == IF rawOpen[h] THEN OpenIoResults ELSE {"closed"}

\* lines 63-64: a task sends on self.stdin (FileWriteStream) or receives on
\* self.stdout (FileReadStream), at any time the stream exists
StreamIo ==
    /\ Suspended
    /\ calls < MaxCalls
    /\ calls' = calls + 1
    /\ \E h \in Wrapped :
          /\ stream[h]
          /\ \E r \in StreamIoResults(h) :
                last' = <<IF h = "stdin" THEN "write" ELSE "read", r>>
    /\ UNCHANGED <<procState, exitCode, returncode, termSent, waiterPc, waitResult>>
    /\ CallFrame

\* the child process ends by itself, at any time, with any status
ProcessExits ==
    /\ procState = "running"
    /\ procState' = "exited"
    /\ \E c \in ExitCodes : exitCode' = c
    /\ UNCHANGED <<returncode, termSent, waiterPc, waitResult, calls, last>>
    /\ CallFrame

\* the child process ends because a termination request reached it
ProcessTerminated ==
    /\ procState = "running"
    /\ termSent > 0
    /\ procState' = "exited"
    /\ exitCode' = 1
    /\ UNCHANGED <<returncode, termSent, waiterPc, waitResult, calls, last>>
    /\ CallFrame

Next ==
    \/ Aenter
    \/ AexitBegin
    \/ AexitTerminate
    \/ AexitWaitCall
    \/ AexitWaitReturn
    \/ AexitWaitCancelled
    \/ AexitCloseWriteStream
    \/ AexitCloseReadStream
    \/ AexitCloseStdinRaw
    \/ AexitCloseStdoutRaw
    \/ AexitCloseStderr
    \/ CancelArrives
    \/ Terminate
    \/ Kill
    \/ WaitCall
    \/ WaitReturn
    \/ StreamIo
    \/ ProcessExits
    \/ ProcessTerminated

Spec == Init /\ [][Next]_vars

\* the scheduler keeps running the task that is inside __aexit__
AexitStep ==
    \/ AexitTerminate
    \/ AexitWaitCall
    \/ AexitCloseWriteStream
    \/ AexitCloseReadStream
    \/ AexitCloseStdinRaw
    \/ AexitCloseStdoutRaw
    \/ AexitCloseStderr

\* the adapter where a process that was sent a termination request
\* eventually exits, the worker thread running popen.wait is eventually
\* scheduled, and the task inside __aexit__ is eventually resumed
FairSpec ==
    /\ Init /\ [][Next]_vars
    /\ WF_vars(ProcessTerminated)
    /\ WF_vars(AexitWaitReturn)
    /\ WF_vars(AexitStep)

\* ------------------------------------------------------ resolver

\* command names the resolver is applied to
Commands == {"npx", "uv", ""}

\* variant: the batch suffix is tried before the shell-script suffix
Extensions_BatFirst == <<".bat", ".cmd", ".exe", ".ps1">>

\* line 34: the suffixes, in the order they are tried
Extensions == <<".cmd", ".bat", ".exe", ".ps1">>

\* lines 30 and 35: the names looked up, in order: the command as given,
\* then f"{command}{ext}" for each ext
Candidates(cmd) ==
    <<cmd>> \o [i \in 1..Len(Extensions) |-> cmd \o Extensions[i]]

\* outcomes of one shutil.which call: None, a path, or OSError
LookupOutcomes == {"miss", "hit", "oserror"}

\* the path shutil.which returns for a name it finds
WhichPath(name) == "C:/bin/" \o name

\* variant: an OSError of a lookup is skipped like a miss
ResolveFrom_SkipsErrors(cands, env, cmd, i) ==
    LET live == {j \in i..Len(cands) : env[cands[j]] = "hit"}
    IN  IF live = {} THEN cmd
        ELSE WhichPath(cands[CHOOSE j \in live : \A k \in live : j <= k])

\* variant: an OSError of a lookup yields the empty string
ResolveFrom_EmptyOnError(cands, env, cmd, i) ==
    LET hit == {j \in i..Len(cands) : env[cands[j]] = "hit"}
        err == {j \in i..Len(cands) : env[cands[j]] = "oserror"}
        first == CHOOSE j \in hit \cup err : \A k \in hit \cup err : j <= k
    IN  IF hit \cup err = {} THEN cmd
        ELSE IF first \in err THEN ""
        ELSE WhichPath(cands[first])

\* lines 28-44 from candidate i on: the first lookup that finds a path
\* returns it; a lookup that raises OSError ends the search with the
\* command itself (the except clause encloses the whole search); the
\* command itself is returned when every lookup misses
RECURSIVE ResolveFrom(_, _, _, _)
ResolveFrom(cands, env, cmd, i) ==
    IF i > Len(cands) THEN cmd
    ELSE IF env[cands[i]] = "oserror" THEN cmd
    ELSE IF env[cands[i]] = "hit" THEN WhichPath(cands[i])
    ELSE ResolveFrom(cands, env, cmd, i + 1)

\* the names looked up by lines 28-44 from candidate i on, in order
RECURSIVE LookedUpFrom(_, _, _)
LookedUpFrom(cands, env, i) ==
    IF i > Len(cands) THEN <<>>
    ELSE IF env[cands[i]] \in {"oserror", "hit"} THEN <<cands[i]>>
    ELSE <<cands[i]>> \o LookedUpFrom(cands, env, i + 1)

\* lines 41-44: the except clause catches the OSError of a lookup
CatchesOSError == TRUE

\* lines 28-44: how the call ends; the OSError of a lookup that is reached
\* is caught, so the call returns
ResolveStatus(cands, env) ==
    LET looked == LookedUpFrom(cands, env, 1)
    IN  IF env[looked[Len(looked)]] = "oserror" /\ ~CatchesOSError
        THEN "raised" ELSE "returned"

\* lines 15-44
get_windows_executable_command(cmd, env) ==
    ResolveFrom(Candidates(cmd), env, cmd, 1)

\* a command name and a lookup environment; the empty name is never found
ResolverInit ==
    /\ command \in Commands
    /\ lookup \in [{Candidates(command)[i] : i \in 1..5} -> LookupOutcomes]
    /\ command = "" => lookup[""] = "miss"
    /\ rpc = "start"
    /\ resolved = ""
    /\ tried = <<>>

\* one call of get_windows_executable_command(command)
Resolve ==
    /\ rpc = "start"
    /\ resolved' = get_windows_executable_command(command, lookup)
    /\ tried' = LookedUpFrom(Candidates(command), lookup, 1)
    /\ rpc' = ResolveStatus(Candidates(command), lookup)
    /\ UNCHANGED <<command, lookup, adapterVars, launcherVars>>

InitResolver == AdapterIdle /\ ResolverInit /\ LauncherIdle
NextResolver == Resolve
SpecResolver == InitResolver /\ [][NextResolver]_vars

\* ------------------------------------------------------ launcher

\* subprocess.PIPE
PIPE == -1
\* subprocess.CREATE_NO_WINDOW
CREATE_NO_WINDOW == 134217728

\* the calls of create_windows_process: command, args, env, errlog, cwd
Requests ==
    [command : {"npx", "uv"}, args : {<<>>, <<"-y", "srv">>},
     env : {"None", "env1"}, errlog : {"sys.stderr", "None"},
     cwd : {"None", "C:/work"}]

\* what the platform does: whether the subprocess module has
\* CREATE_NO_WINDOW, and whether the first and the second Popen call raise
Platforms == [hasFlag : BOOLEAN, first : {"ok", "raise"}, second : {"ok", "raise"}]

\* line 144: getattr(subprocess, "CREATE_NO_WINDOW", 0)
CreationFlag(plat) == IF plat.hasFlag THEN CREATE_NO_WINDOW ELSE 0

\* lines 136-145: the first Popen call
FirstSpawnArgs(req, plat) ==
    [argv |-> <<req.command>> \o req.args, stdin |-> PIPE, stdout |-> PIPE,
     stderr |-> req.errlog, env |-> req.env, cwd |-> req.cwd, bufsize |-> 0,
     creationflags |-> CreationFlag(plat)]

\* variant: the fallback call forgets the working directory
FallbackSpawnArgs_NoCwd(req) ==
    [argv |-> <<req.command>> \o req.args, stdin |-> PIPE, stdout |-> PIPE,
     stderr |-> req.errlog, env |-> req.env, cwd |-> "None", bufsize |-> 0,
     creationflags |-> 0]

\* lines 150-158: the fallback Popen call; creationflags is not passed and
\* takes Popen's default 0
FallbackSpawnArgs(req) ==
    [argv |-> <<req.command>> \o req.args, stdin |-> PIPE, stdout |-> PIPE,
     stderr |-> req.errlog, env |-> req.env, cwd |-> req.cwd, bufsize |-> 0,
     creationflags |-> 0]

\* variant: a failed fallback is tried once more
LaunchResult_ThirdAttempt(req, plat) ==
    IF plat.first = "ok"
    THEN [attempts |-> <<FirstSpawnArgs(req, plat)>>, children |-> {1},
          adapter |-> 1, lpc |-> "returned"]
    ELSE IF plat.second = "ok"
    THEN [attempts |-> <<FirstSpawnArgs(req, plat), FallbackSpawnArgs(req)>>,
          children |-> {2}, adapter |-> 2, lpc |-> "returned"]
    ELSE [attempts |-> <<FirstSpawnArgs(req, plat), FallbackSpawnArgs(req),
                         FallbackSpawnArgs(req)>>,
          children |-> {}, adapter |-> 0, lpc |-> "raised"]

\* variant: building the FallbackProcess raises
WrapCanRaise_Yes == TRUE

\* lines 57-64, called at lines 146 and 160: FallbackProcess.__init__ stores
\* the Popen object and its endpoints and builds the two stream wrappers;
\* none of these statements raises
WrapCanRaise == FALSE

\* lines 148-160: the except branch, entered with the children `kids` in
\* existence: the fallback Popen call, then the FallbackProcess around it;
\* an exception of either leaves the function
FallbackResult(req, plat, kids) ==
    LET made == <<FirstSpawnArgs(req, plat), FallbackSpawnArgs(req)>>
    IN  IF plat.second # "ok"
        THEN [attempts |-> made, children |-> kids, adapter |-> 0, lpc |-> "raised"]
        ELSE IF WrapCanRaise
        THEN [attempts |-> made, children |-> kids \cup {2}, adapter |-> 0,
              lpc |-> "raised"]
        ELSE [attempts |-> made, children |-> kids \cup {2}, adapter |-> 2,
              lpc |-> "returned"]

\* lines 134-160: the Popen calls made, the children that exist afterwards,
\* the popen wrapped in the returned FallbackProcess (0: none), and whether
\* the call returned or raised.  The try block holds the first Popen call
\* and the construction of the FallbackProcess; an Exception of either
\* enters the except branch.
LaunchResult(req, plat) ==
    IF plat.first # "ok" THEN FallbackResult(req, plat, {})
    ELSE IF WrapCanRaise THEN FallbackResult(req, plat, {1})
    ELSE [attempts |-> <<FirstSpawnArgs(req, plat)>>, children |-> {1},
          adapter |-> 1, lpc |-> "returned"]

LauncherInit ==
    /\ request \in Requests
    /\ platform \in Platforms
    /\ lpc = "start"
    /\ attempts = <<>>
    /\ children = {}
    /\ adapter = 0

\* one call of create_windows_process(request)
CreateWindowsProcess ==
    /\ lpc = "start"
    /\ LET r == LaunchResult(request, platform)
       IN  /\ attempts' = r.attempts
           /\ children' = r.children
           /\ adapter' = r.adapter
           /\ lpc' = r.lpc
    /\ UNCHANGED <<request, platform, adapterVars, resolverVars>>

InitLauncher == AdapterIdle /\ ResolverIdle /\ LauncherInit
NextLauncher == CreateWindowsProcess
SpecLauncher == InitLauncher /\ [][NextLauncher]_vars

\* ------------------------------------------------------ adapter: claims

\* every occurrence of event b in the running / last __aexit__ comes after
\* an occurrence of event a
Before(a, b) ==
    \A j \in DOMAIN events :
        events[j] = b => \E i \in DOMAIN events : i < j /\ events[i] = a

Occurred(e) == \E i \in DOMAIN events : events[i] = e

StreamCloseEvents == {"close_write_stream", "close_read_stream"}
RawCloseEvents == {"close_stdin_raw", "close_stdout_raw", "close_stderr"}

\* the close step of each stream and of each raw handle
StreamCloseOf(s) == IF s = "stdin" THEN "close_write_stream" ELSE "close_read_stream"
RawCloseOf(h) == IF h = "stdin" THEN "close_stdin_raw"
                 ELSE IF h = "stdout" THEN "close_stdout_raw" ELSE "close_stderr"

AllClosed == \A h \in Handles : ~rawOpen[h]
Reaped == procState = "exited" /\ returncode # NoCode
AllPresent == \A h \in Handles : rawPresent[h]

\* C1: within one __aexit__, terminate() is issued before the wait starts,
\* the wait has completed before any stream is closed, every present stream
\* is closed before close is called directly on a raw handle, and whenever a
\* stream or raw handle has been closed the process was terminated and reaped.
C1_TeardownOrder ==
    /\ Before("terminate", "wait_start")
    /\ Before("wait_start", "wait_done")
    /\ \A e \in StreamCloseEvents \cup RawCloseEvents : Before("wait_done", e)
    /\ Before("close_write_stream", "close_read_stream") \/ ~stream["stdin"]
    /\ \A s \in Wrapped : \A r \in RawCloseEvents :
          stream[s] => Before(StreamCloseOf(s), r)
    /\ (\E e \in StreamCloseEvents \cup RawCloseEvents : Occurred(e))
          => Occurred("terminate") /\ Reaped

\* C1 witness: a scope exit that ran all eight steps on an adapter with all
\* three endpoints
C1_Witness ==
    /\ pc = "done" /\ outcome = "ok" /\ AllPresent
    /\ events = <<"terminate", "wait_start", "wait_done", "close_write_stream",
                  "close_read_stream", "close_stdin_raw", "close_stdout_raw",
                  "close_stderr">>

\* C2: once a scope exit has finished, however the scope was left, every
\* present stream and raw handle is closed and the process was terminated
\* and reaped.
C2_AllReleasedOnEveryExit ==
    pc = "done" => AllClosed /\ Reaped

\* C3: a scope exit that ended, normally or because one of its steps failed,
\* has attempted the close of every present stream and every present raw
\* handle.
C3_EveryCloseAttempted ==
    (pc = "done" /\ outcome \in {"ok", "error"}) =>
        /\ \A s \in Wrapped : stream[s] => Occurred(StreamCloseOf(s))
        /\ \A h \in Handles : rawPresent[h] => Occurred(RawCloseOf(h))

\* C4: when the scope body completed without an exception, the scope exit
\* hands no error of a teardown step to the caller.
C4_NoTeardownErrorEscapes ==
    (pc = "done" /\ exc = "none") => callerSees # "error"

\* C5 as stated: close reaches each raw endpoint at most once over the life
\* of the adapter, counting aclose() of the wrapping stream and the direct
\* close.
C5_CloseReachesRawAtMostOnce ==
    \A h \in Handles : closeCalls[h] <= 1

\* close() calls one scope exit makes on a raw endpoint: through the stream
\* and directly for stdin and stdout, directly only for stderr
ClosesPerExit(h) == IF h \in Wrapped THEN 2 ELSE 1

\* C5 amended: the descriptor of each raw endpoint is released at most once
\* over the life of the adapter, and only if the endpoint is present; the
\* close call itself reaches a present stdin / stdout endpoint up to twice
\* per scope exit and stderr up to once per scope exit, an absent endpoint
\* never.
C5_ReleasedAtMostOnce ==
    \A h \in Handles :
        /\ releases[h] <= 1
        /\ releases[h] = 1 <=> (rawPresent[h] /\ ~rawOpen[h])
        /\ closeCalls[h] <= exits * ClosesPerExit(h)
        /\ ~rawPresent[h] => closeCalls[h] = 0

\* C5 witness: two completed scope exits made four close calls on raw stdin
\* and released it once
C5_Witness ==
    /\ pc = "done" /\ completed = 2
    /\ closeCalls["stdin"] = 4 /\ releases["stdin"] = 1
    /\ closeCalls["stderr"] = 2 /\ releases["stderr"] = 1

\* C6: once a scope exit has returned normally, a further scope exit never
\* fails in one of its steps, and no step of it changes the process (exited
\* and reaped with the same status) or the streams and raw handles (all
\* closed, none released again).
C6_SecondTeardownHarmless ==
    /\ [](completed >= 1 => outcome # "error" /\ AllClosed /\ Reaped)
    /\ [][completed >= 1 =>
            /\ rawOpen' = rawOpen
            /\ releases' = releases
            /\ rawPresent' = rawPresent
            /\ stream' = stream
            /\ procState' = procState
            /\ returncode' = returncode]_vars

\* C6 witness: a second scope exit has returned normally on an adapter with
\* all three endpoints
C6_Witness ==
    /\ pc = "done" /\ exits = 2 /\ completed = 2 /\ outcome = "ok" /\ AllPresent
    /\ Len(events) = 8

\* steps of the calls, recognised by what they record
TerminateStep == calls' = calls + 1 /\ last'[1] = "terminate"
KillStep == calls' = calls + 1 /\ last'[1] = "kill"
WaitCallStep == calls' = calls + 1 /\ last'[1] = "wait"
WaitReturnStep == waiterPc = "waiting" /\ waiterPc' = "idle"
AenterStep == pc = "constructed" /\ pc' = "body"
StreamIoStep == calls' = calls + 1 /\ last'[1] \in {"read", "write"}

\* C12: a kill() step and a terminate() step have the same effect, a function
\* of the state they start in: popen.returncode is left alone when set, picks
\* up the status of a process that already exited, and otherwise one
\* termination request is sent; the call does not wait (the process state is
\* unchanged, no wait is started, nothing is reaped that had not exited) and
\* touches nothing else of the adapter.
C12_KillSameAsTerminate ==
    [][(KillStep \/ TerminateStep) =>
          /\ returncode' = (IF returncode # NoCode THEN returncode
                            ELSE IF procState = "exited" THEN exitCode ELSE NoCode)
          /\ termSent' = (IF returncode = NoCode /\ procState = "running"
                          THEN termSent + 1 ELSE termSent)
          /\ procState' = procState /\ exitCode' = exitCode
          /\ waiterPc' = waiterPc /\ waitResult' = waitResult
          /\ pc' = pc /\ rawOpen' = rawOpen /\ stream' = stream
          /\ closeCalls' = closeCalls /\ events' = events]_vars

\* C12 witness: kill() has sent the one termination request to a running
\* process and returned while the process still runs
C12_Witness ==
    /\ last = <<"kill", "none">> /\ termSent = 1
    /\ procState = "running" /\ returncode = NoCode /\ waiterPc = "idle"

\* C13: wait() and the wait step of the scope exit complete only once the
\* process has exited, wait() returning the exit status of the process; and
\* while the owner is suspended in the wait step of the scope exit, or a
\* task is suspended in wait(), the other tasks can still take their steps.
C13_WaitSuspendsOnlyCaller ==
    /\ [][WaitReturnStep =>
            procState = "exited" /\ exitCode \in ExitCodes
            /\ waitResult' = exitCode /\ returncode' = exitCode]_vars
    /\ [][(pc = "waiting" /\ pc' = "close_write_stream") =>
            procState = "exited" /\ returncode' = exitCode]_vars
    /\ []((pc = "waiting" /\ calls < MaxCalls) =>
            /\ ENABLED Terminate
            /\ ENABLED Kill
            /\ waiterPc = "idle" => ENABLED WaitCall)
    /\ [](waiterPc = "waiting" =>
            /\ pc = "constructed" => ENABLED Aenter
            /\ (pc \in {"body", "done"} /\ exits < MaxExits) => ENABLED AexitBegin
            /\ pc = "terminate" => ENABLED AexitTerminate
            /\ (Suspended /\ calls < MaxCalls) => ENABLED Terminate)

\* C13 witness: a task is suspended in wait() and the owner in the wait step
\* of the scope exit while the process still runs
C13_Witness ==
    /\ waiterPc = "waiting" /\ pc = "waiting" /\ procState = "running"
    /\ calls < MaxCalls

\* C14: a receive on the read stream or a send on the write stream made
\* after a scope exit has ended fails with the closed-stream error.
C14_IoAfterExitFailsClosed ==
    [][(StreamIoStep /\ pc = "done") => last'[2] = "closed"]_vars

\* C16: at every point of the adapter's life the write stream exists exactly
\* when raw stdin was present at construction and the read stream exactly
\* when raw stdout was, stderr is never wrapped, the streams and endpoints
\* never change, and no close reaches an absent endpoint, directly or
\* through a stream.
C16_StreamsMatchEndpoints ==
    /\ [](/\ \A h \in Wrapped : stream[h] <=> rawPresent[h]
          /\ ~stream["stderr"]
          /\ \A h \in Handles : ~rawPresent[h] =>
                /\ closeCalls[h] = 0 /\ releases[h] = 0
                /\ ~Occurred(RawCloseOf(h))
                /\ h \in Wrapped => ~Occurred(StreamCloseOf(h)))
    /\ [][stream' = stream /\ rawPresent' = rawPresent]_vars

\* C16 witness: a scope exit returned on an adapter that has only stdin; it
\* closed the write stream and raw stdin and nothing else
C16_Witness ==
    /\ pc = "done" /\ outcome = "ok"
    /\ rawPresent["stdin"] /\ ~rawPresent["stdout"] /\ ~rawPresent["stderr"]
    /\ events = <<"terminate", "wait_start", "wait_done", "close_write_stream",
                  "close_stdin_raw">>

\* the close steps of __aexit__
ClosePcs == StreamCloseEvents \cup RawCloseEvents

\* C17: terminate(), kill(), wait() (its call and its return) and __aenter__
\* leave every stream and raw handle as it was; wait() sends no termination
\* request; __aenter__ returns the adapter and changes nothing of it; and a
\* raw handle changes only in a close step of __aexit__.
C17_OnlyScopeExitCloses ==
    /\ [][(TerminateStep \/ KillStep \/ WaitCallStep \/ WaitReturnStep \/ AenterStep) =>
            /\ rawOpen' = rawOpen /\ rawPresent' = rawPresent
            /\ stream' = stream /\ closeCalls' = closeCalls
            /\ releases' = releases]_vars
    /\ [][(WaitCallStep \/ WaitReturnStep) =>
            termSent' = termSent /\ procState' = procState]_vars
    /\ [][AenterStep =>
            /\ entered' = "self"
            /\ UNCHANGED <<rawPresent, rawOpen, closeCalls, releases, completed,
                           stream, procState, exitCode, returncode, termSent,
                           exc, cancelPending, outcome, callerSees, exits,
                           events, waiterPc, waitResult, calls, last>>]_vars
    /\ [][(rawOpen' # rawOpen \/ closeCalls' # closeCalls) => pc \in ClosePcs]_vars

\* C17 witness: inside the scope a wait() is suspended on a running process
\* that was sent no termination request, all endpoints still open
C17_Witness ==
    /\ entered = "self" /\ pc = "body" /\ AllPresent
    /\ last = <<"wait", "none">> /\ waiterPc = "waiting"
    /\ termSent = 0 /\ procState = "running"
    /\ \A h \in Handles : rawOpen[h]

\* C19: when the scope body raised and __aexit__ returned without failing,
\* the caller of the scope still sees the body's exception.
C19_BodyErrorNotSuppressed ==
    (pc = "done" /\ outcome = "ok") => callerSees = exc

\* C19 witness: the body raised an error, teardown ran through, and the
\* caller sees the error
C19_Witness ==
    /\ pc = "done" /\ outcome = "ok" /\ exc = "error" /\ callerSees = "error"
    /\ AllClosed /\ Reaped

\* C20: with a process that exits once asked to terminate and a worker and
\* a task that are eventually scheduled, every started __aexit__ ends, and
\* unless a close failed or the task was cancelled it ends with the process
\* reaped and every present stream and raw handle closed; and __aexit__ is
\* never in its wait while the process runs without a termination request.
C20_ScopeExitTerminates ==
    /\ (pc = "terminate") ~>
          (pc = "done" /\ (outcome = "ok" => AllClosed /\ Reaped))
    /\ [](pc = "waiting" => termSent > 0 \/ procState = "exited")

\* C20 witness: a scope exit asked a running process to terminate, waited
\* for it and closed all three endpoints
C20_Witness ==
    /\ pc = "done" /\ outcome = "ok" /\ exits = 1 /\ calls = 0
    /\ termSent = 1 /\ exitCode = 1
    /\ AllPresent /\ AllClosed /\ Reaped

\* ------------------------------------------------------ launcher: claims

\* the keyword arguments the two Popen calls must agree on
SpawnFields == {"argv", "stdin", "stdout", "stderr", "env", "cwd", "bufsize"}

\* C7: when the first spawn raised, a second spawn was made with the same
\* command and arguments, stdin and stdout pipes, stderr target, environment,
\* working directory and unbuffered setting as the first and as the call
\* asked for, without the console-suppression flag; and when that second
\* spawn succeeded the call returned an adapter wrapping its process.
C7_FallbackSameSpawnWithoutFlag ==
    (lpc # "start" /\ platform.first = "raise") =>
        /\ Len(attempts) >= 2
        /\ \A f \in SpawnFields : attempts[2][f] = attempts[1][f]
        /\ attempts[2].argv = <<request.command>> \o request.args
        /\ attempts[2].stdin = PIPE /\ attempts[2].stdout = PIPE
        /\ attempts[2].stderr = request.errlog
        /\ attempts[2].env = request.env
        /\ attempts[2].cwd = request.cwd
        /\ attempts[2].bufsize = 0
        /\ attempts[2].creationflags = 0
        /\ attempts[1].creationflags = IF platform.hasFlag THEN CREATE_NO_WINDOW ELSE 0
        /\ platform.second = "ok" =>
              lpc = "returned" /\ adapter = 2 /\ children = {2}

\* C7 witness: the flagged spawn raised, the fallback spawn of a call with
\* arguments, environment and working directory succeeded and was returned
C7_Witness ==
    /\ lpc = "returned" /\ adapter = 2
    /\ platform.first = "raise" /\ platform.hasFlag
    /\ request.cwd # "None" /\ request.env # "None" /\ request.args # <<>>
    /\ attempts[1].creationflags = CREATE_NO_WINDOW

\* C8: a call makes at most two spawn attempts, the second only when the
\* first raised; when both raised the call raises, returns no adapter and
\* has made exactly two attempts.
C8_AtMostTwoAttempts ==
    /\ Len(attempts) <= 2
    /\ Len(attempts) = 2 => platform.first = "raise"
    /\ (lpc # "start" /\ platform.first = "ok") => Len(attempts) = 1
    /\ (lpc # "start" /\ platform.first = "raise" /\ platform.second = "raise") =>
          lpc = "raised" /\ adapter = 0 /\ children = {} /\ Len(attempts) = 2

\* C8 witness: both spawns raised and the call raised after two attempts
C8_Witness ==
    /\ lpc = "raised" /\ Len(attempts) = 2
    /\ platform.first = "raise" /\ platform.second = "raise"

\* C18: a call leaves at most one spawned child in existence; when it
\* returned, that child is the one wrapped by the returned adapter; when it
\* raised, no child exists; so no child is left that no adapter owns.
C18_NoUnownedChild ==
    /\ Cardinality(children) <= 1
    /\ lpc = "returned" => adapter # 0 /\ children = {adapter}
    /\ lpc = "raised" => adapter = 0 /\ children = {}
    /\ lpc = "start" => adapter = 0 /\ children = {}

\* C18 witness: the first spawn raised, the fallback child is the only child
\* and the returned adapter owns it
C18_Witness ==
    /\ lpc = "returned" /\ Len(attempts) = 2
    /\ children = {2} /\ adapter = 2

\* ------------------------------------------------------ resolver: claims

NoLookupFails == \A n \in DOMAIN lookup : lookup[n] # "oserror"

\* C9: when no lookup fails, the result is the lookup result of the first of
\* command, command.cmd, command.bat, command.exe, command.ps1 that is
\* found, and the command itself when none is found.
C9_FirstHitInFixedOrder ==
    (rpc = "returned" /\ NoLookupFails) =>
        resolved =
            IF lookup[command] = "hit" THEN WhichPath(command)
            ELSE IF lookup[command \o ".cmd"] = "hit" THEN WhichPath(command \o ".cmd")
            ELSE IF lookup[command \o ".bat"] = "hit" THEN WhichPath(command \o ".bat")
            ELSE IF lookup[command \o ".exe"] = "hit" THEN WhichPath(command \o ".exe")
            ELSE IF lookup[command \o ".ps1"] = "hit" THEN WhichPath(command \o ".ps1")
            ELSE command

\* C9 witness: .cmd and .ps1 are both found and the .cmd path was returned;
\* and a command for which nothing is found
C9_Witness ==
    /\ rpc = "returned" /\ command = "npx" /\ NoLookupFails
    /\ lookup["npx"] = "miss" /\ lookup["npx.cmd"] = "hit"
    /\ lookup["npx.bat"] = "hit" /\ lookup["npx.ps1"] = "hit"
    /\ resolved = "C:/bin/npx.cmd"

\* the fixed order of the five candidate names
OrderedNames == <<command, command \o ".cmd", command \o ".bat",
                  command \o ".exe", command \o ".ps1">>

\* positions of the candidates whose lookup is found / fails
HitAt == {i \in 1..5 : lookup[OrderedNames[i]] = "hit"}
ErrorAt == {i \in 1..5 : lookup[OrderedNames[i]] = "oserror"}
Least(S) == CHOOSE i \in S : \A k \in S : i <= k

\* C10 as stated: a candidate whose lookup fails with a filesystem error is
\* treated as not found and the search goes on, so the result is the lookup
\* result of the first candidate that is found, whatever failed before it.
C10_SearchContinuesAfterError ==
    rpc = "returned" =>
        resolved = IF HitAt = {} THEN command
                   ELSE WhichPath(OrderedNames[Least(HitAt)])

\* C10 amended: a filesystem error of a lookup does not propagate; when a
\* lookup fails before any candidate was found, the search ends there, no
\* later candidate is looked up, and the original command name is returned
\* (also when a later candidate would have been found).
C10_ErrorEndsSearch ==
    /\ rpc # "raised"
    /\ (rpc = "returned" /\ ErrorAt # {}
            /\ \A i \in HitAt : Least(ErrorAt) < i) =>
          /\ resolved = command
          /\ tried = SubSeq(OrderedNames, 1, Least(ErrorAt))

\* C10 witness: the lookup of the command itself failed, command.cmd would
\* have been found, and the command itself was returned
C10_Witness ==
    /\ rpc = "returned" /\ command = "npx"
    /\ lookup["npx"] = "oserror" /\ lookup["npx.cmd"] = "hit"
    /\ resolved = "npx" /\ tried = <<"npx">>

\* C11 as stated: for every command name, the empty one included, and every
\* outcome of the lookups, the call does not raise and returns a non-empty
\* string.
C11_NonEmptyAndNeverRaises ==
    /\ rpc # "raised"
    /\ rpc = "returned" => resolved # ""

\* the paths a lookup of a candidate of the command can return
CandidatePaths == {WhichPath(OrderedNames[i]) : i \in 1..5}

\* C11 amended: the call never raises for any command name and any outcome
\* of the lookups; it returns a non-empty string whenever the command name
\* is non-empty; for the empty command name it returns the empty string
\* unless one of the bare suffixes is found before any lookup fails.
C11_NeverRaisesNonEmptyForNonEmpty ==
    /\ rpc # "raised"
    /\ (rpc = "returned" /\ command # "") => resolved # ""
    /\ rpc = "returned" => resolved \in {command} \cup CandidatePaths
    /\ (rpc = "returned" /\ command = ""
            /\ (HitAt = {} \/ \E e \in ErrorAt : \A i \in HitAt : e < i)) =>
          resolved = ""

\* C11 witness: a lookup of a non-empty command failed and the call returned
\* the command
C11_Witness ==
    /\ rpc = "returned" /\ command = "uv"
    /\ lookup["uv"] = "miss" /\ lookup["uv.cmd"] = "oserror"
    /\ resolved = "uv"

====
